---- MODULE Spec2Model ----
(***************************************************************************)
(* CKAN_PM25_DataExtractor.py: the fetch / cache / filter / aggregate      *)
(* pipeline.  For every date window the script loads the window's raw      *)
(* records from its cache file or pages them from the CKAN datastore,      *)
(* filters and scales pm2_5, and for every area keeps the records inside   *)
(* the area's polygon, computes daily and overall statistics, appends them *)
(* to the summary list and hands the extract to the writer.                *)
(*                                                                         *)
(* Calendar days are integers.  A recording_timestamp is [day, tod] with   *)
(* tod = 0 for midnight and tod > 0 for a later time of that day.  Numbers *)
(* that pandas holds as floats are exact fractions [num, den].             *)
(***************************************************************************)
EXTENDS Integers, Sequences, FiniteSets, TLC

\* ------------------------------------------------------------ bounds
NumWindows == 2      \* entries of date_ranges
NumAreas == 2        \* entries of geojson_files
MaxRuns == 2         \* executions of the script over the same output folder
MaxFaults == 1       \* failing library calls (I/O, HTTP, pandas) over all runs

\* ----------------------------------------------------- configuration
limit == 10000

Windows == 1..NumWindows
Areas == 1..NumAreas

\* Window w starts on day 10*w and spans w+1 days (windows of unequal length).
date_ranges == [w \in Windows |-> [start_date |-> 10 * w, end_date |-> 10 * w + w]]

\* The first geometry of area k's file: the open rectangle 10k < lon < 10k+4, 0 < lat < 4.
geojson_files == [k \in Areas |-> [lon0 |-> 10 * k, lon1 |-> 10 * k + 4, lat0 |-> 0, lat1 |-> 4]]

\* The label names the area alone.
LabelAreaOnly(k, w) == [location_name |-> k, start_date |-> 0, end_date |-> 0]

\* f"{location_name} ({start_date} to {end_date})"
Label(k, w) == [location_name |-> k, start_date |-> date_ranges[w].start_date, end_date |-> date_ranges[w].end_date]

\* ------------------------------------------------------- remote table
\* One row of the datastore resource (the projected columns that the pipeline reads).
Row(id, day, tod, lon, lat, pm, ver) ==
    [entity_id |-> id, recording_timestamp |-> [day |-> day, tod |-> tod],
     longitude |-> lon, latitude |-> lat, pm2_5 |-> pm, version_major |-> ver]

\* Raw pm2_5 values around the limits of the range filter.
RawValues == <<10001, 10000, 101, 100, 1, 0, -5>>

\* "grid": for window w, on its first day inside area 1, every raw value with
\* every version_major; plus rows on the last day (at and after midnight), on
\* the boundary of area 1, inside the last area and outside every area.
GridRows(w) ==
    LET s == date_ranges[w].start_date
        e == date_ranges[w].end_date
    IN  << Row(1, e, 1, 12, 2, 700, "2"),
           Row(2, e, 0, 12, 2, 900, "2"),
           Row(3, e, 0, 10 * NumAreas + 2, 2, 300, "2") >>
        \o [i \in 1..Len(RawValues) |-> Row(10 + i, s, 1, 12, 2, RawValues[i], "1")]
        \o [i \in 1..Len(RawValues) |-> Row(20 + i, s, 1, 12, 2, RawValues[i], "2")]
        \o << Row(4, s, 1, 10, 2, 400, "2"),
              Row(5, s, 0, 2, 2, 600, "2") >>

\* "sparse": one row in area 1 on the first day of each window, one more in
\* the last area on the last day of window 1.
SparseRows(w) ==
    LET s == date_ranges[w].start_date
        e == date_ranges[w].end_date
    IN  (IF w = 1 THEN << Row(1, e, 0, 10 * NumAreas + 2, 2, 1000, "2") >> ELSE << >>)
        \o << Row(2, s, 1, 12, 2, 500, "2"), Row(3, s, 0, 12, 2, 1500, "2") >>

\* "bulk": window 1 holds two full pages and a last page of 3000 rows, all of
\* them sensor readings of 0; the other windows are empty.
BulkRows(w) ==
    LET s == date_ranges[w].start_date
    IN  IF w = 1
        THEN [i \in 1..(2 * limit + 3000) |-> Row(i, s, 1, 12, 2, 0, "2")]
        ELSE << >>

\* "scenario": window 1 holds only readings outside the range filter; window 2
\* (three days) holds, inside the last area, 500 and 1500 on its first day and
\* 1000 at midnight of its last day; the other windows are empty.
ScenarioRows(w) ==
    LET s == date_ranges[w].start_date
        e == date_ranges[w].end_date
    IN  CASE w = 1 -> << Row(1, s, 1, 12, 2, 10001, "2"), Row(2, s, 0, 12, 2, 0, "1") >>
          [] w = 2 -> << Row(1, e, 0, 10 * NumAreas + 2, 2, 1000, "2"),
                         Row(2, s, 2, 10 * NumAreas + 2, 2, 1500, "2"),
                         Row(3, s, 1, 10 * NumAreas + 2, 2, 500, "2") >>
          [] OTHER -> << >>

Tables == {"empty", "sparse", "grid", "bulk", "scenario"}

\* The rows of table t that carry window w's days, newest first.
TableRows(t, w) ==
    CASE t = "empty" -> << >>
      [] t = "sparse" -> SparseRows(w)
      [] t = "grid" -> GridRows(w)
      [] t = "bulk" -> BulkRows(w)
      [] t = "scenario" -> ScenarioRows(w)

\* WHERE recording_timestamp >= '{start_date}' AND recording_timestamp <= '{end_date}':
\* a date literal compared with a timestamp is that day's midnight.
InTimeRange(r, w) ==
    /\ r.recording_timestamp.day >= date_ranges[w].start_date
    /\ \/ r.recording_timestamp.day < date_ranges[w].end_date
       \/ /\ r.recording_timestamp.day = date_ranges[w].end_date
          /\ r.recording_timestamp.tod = 0

\* The ordered result set of the window's query, before LIMIT and OFFSET.
ResultSet(t, w) == SelectSeq(TableRows(t, w), LAMBDA r : InTimeRange(r, w))

Min(x, y) == IF x <= y THEN x ELSE y

\* LIMIT {limit} OFFSET {offset}
Page(t, w, off) ==
    LET rs == ResultSet(t, w)
    IN  SubSeq(rs, off + 1, Min(off + limit, Len(rs)))

\* ------------------------------------------------------ normalization
pm2_5_max == 10000
version_1_factor == 100
stats_divisor == 100

\* df = df[(df["pm2_5"] > 0) & (df["pm2_5"] <= 10000)]
RangeFilter(recs) == SelectSeq(recs, LAMBDA r : r.pm2_5 > 0 /\ r.pm2_5 <= pm2_5_max)

\* Every record is scaled, whatever its version_major.
VersionScaleAll(recs) == [i \in 1..Len(recs) |-> [recs[i] EXCEPT !.pm2_5 = @ * version_1_factor]]

\* df.loc[df["version_major"] == "1", "pm2_5"] *= 100
VersionScale(recs) ==
    [i \in 1..Len(recs) |->
        IF recs[i].version_major = "1"
        THEN [recs[i] EXCEPT !.pm2_5 = @ * version_1_factor]
        ELSE recs[i]]

\* The two steps in the order of the code; each is skipped on an empty frame.
Normalized(recs) ==
    LET filtered == IF recs # << >> THEN RangeFilter(recs) ELSE recs
    IN  IF filtered # << >> THEN VersionScale(filtered) ELSE filtered

\* ------------------------------------------------------ spatial filter
\* The boundary counts as inside.
WithinPolygonClosed(r, poly) ==
    /\ poly.lon0 <= r.longitude /\ r.longitude <= poly.lon1
    /\ poly.lat0 <= r.latitude /\ r.latitude <= poly.lat1

\* Point(longitude, latitude).within(polygon): the interior, without the boundary.
WithinPolygon(r, poly) ==
    /\ poly.lon0 < r.longitude /\ r.longitude < poly.lon1
    /\ poly.lat0 < r.latitude /\ r.latitude < poly.lat1

\* gdf[gdf.within(polygon)]
Within(recs, k) == SelectSeq(recs, LAMBDA r : WithinPolygon(r, geojson_files[k]))

\* ---------------------------------------------------------- statistics
Frac(n, d) == [num |-> n, den |-> d]
Num(f) == [kind |-> "num", val |-> f]
NaN == [kind |-> "nan"]
Missing == [kind |-> "missing"]
OnDay(d) == [kind |-> "day", day |-> d]
Overall == [kind |-> "Overall"]

RECURSIVE Sum(_)
Sum(vals) == IF vals = << >> THEN 0 ELSE Head(vals) + Sum(Tail(vals))

\* The k-th value of vals in ascending order (what sorting puts at position k).
Kth(vals, k) ==
    CHOOSE v \in {vals[i] : i \in 1..Len(vals)} :
        /\ Cardinality({i \in 1..Len(vals) : vals[i] < v}) < k
        /\ k <= Cardinality({i \in 1..Len(vals) : vals[i] <= v})

\* The lower of the two middle values is taken for an even count.
MedianLower(vals) == Frac(Kth(vals, (Len(vals) + 1) \div 2), 1)

\* Series.mean() and Series.median() of a non-empty series.
Mean(vals) == Frac(Sum(vals), Len(vals))
Median(vals) ==
    LET n == Len(vals)
    IN  IF n % 2 = 1 THEN Frac(Kth(vals, (n + 1) \div 2), 1)
        ELSE Frac(Kth(vals, n \div 2) + Kth(vals, n \div 2 + 1), 2)

\* The integer nearest to p / q (q > 0), a tie going to the even one.
RoundHalfEven(p, q) ==
    LET f == p \div q
        r == p % q
    IN  IF 2 * r < q THEN f
        ELSE IF 2 * r > q THEN f + 1
        ELSE IF f % 2 = 0 THEN f ELSE f + 1

\* x / 100; NaN stays NaN
Div100(c) == IF c.kind = "num" THEN Num(Frac(c.val.num, c.val.den * stats_divisor)) ELSE c
\* round(x, 2); NaN stays NaN
Round2(c) == IF c.kind = "num" THEN Num(Frac(RoundHalfEven(c.val.num * 100, c.val.den), 100)) ELSE c
\* fillna("missing")
FillNa(c) == IF c.kind = "nan" THEN Missing ELSE c

Pm(recs) == [i \in 1..Len(recs) |-> recs[i].pm2_5]
RecDays(recs) == {recs[i].recording_timestamp.day : i \in 1..Len(recs)}
OfDay(recs, d) == SelectSeq(recs, LAMBDA r : r.recording_timestamp.day = d)

StatRow(date, avg, med) == [Date |-> date, PM25_Average |-> avg, PM25_Median |-> med]

\* set_index("recording_timestamp").resample("D").agg({"pm2_5": ["mean", "median"]}):
\* one row per day from the first to the last day that has a record.
Resampled(recs) ==
    LET lo == CHOOSE d \in RecDays(recs) : \A e \in RecDays(recs) : d <= e
        hi == CHOOSE d \in RecDays(recs) : \A e \in RecDays(recs) : d >= e
    IN  [i \in 1..(hi - lo + 1) |->
            LET day == OfDay(recs, lo + i - 1)
            IN  IF day = << >> THEN StatRow(OnDay(lo + i - 1), NaN, NaN)
                ELSE StatRow(OnDay(lo + i - 1), Num(Mean(Pm(day))), Num(Median(Pm(day))))]

\* set_index("Date").reindex(pd.date_range(start_date, end_date, freq="D"))
Reindexed(rows, w) ==
    LET s == date_ranges[w].start_date
        e == date_ranges[w].end_date
    IN  [i \in 1..(e - s + 1) |->
            IF \E j \in 1..Len(rows) : rows[j].Date = OnDay(s + i - 1)
            THEN rows[CHOOSE j \in 1..Len(rows) : rows[j].Date = OnDay(s + i - 1)]
            ELSE StatRow(OnDay(s + i - 1), NaN, NaN)]

\* /= 100, .round(2), .fillna("missing") on the two statistics columns
Presented(rows) ==
    [i \in 1..Len(rows) |->
        StatRow(rows[i].Date,
                FillNa(Round2(Div100(rows[i].PM25_Average))),
                FillNa(Round2(Div100(rows[i].PM25_Median))))]

\* Lines 174-200: each stage works on the frame the stage before it produced.
DailyStats(recs, w) ==
    CHOOSE out \in {Presented(indexed) : indexed \in {Reindexed(sampled, w) : sampled \in {Resampled(recs)}}} : TRUE

\* The one-row frame of lines 207-218.
OverallStats(recs) ==
    << StatRow(Overall, Round2(Div100(Num(Mean(Pm(recs))))), Round2(Div100(Num(Median(Pm(recs)))))) >>

\* gdf_within_geojson_to_save["pm2_5"] = gdf_within_geojson_to_save["pm2_5"] / 100
ToSave(recs) == [i \in 1..Len(recs) |-> [recs[i] EXCEPT !.pm2_5 = Frac(@, stats_divisor)]]

\* ---------------------------------------------------------- cache file
\* A JSON object of the file: the values of its members, in the order of the
\* columns of the query (entity_id, recording_timestamp, longitude, latitude,
\* pm2_5, version_major).
DumpRow(r) ==
    << r.entity_id, r.recording_timestamp, r.longitude, r.latitude, r.pm2_5, r.version_major >>
LoadRow(obj) ==
    [entity_id |-> obj[1], recording_timestamp |-> obj[2], longitude |-> obj[3],
     latitude |-> obj[4], pm2_5 |-> obj[5], version_major |-> obj[6]]

\* json.dump(all_records, f) and json.load(f)
json_dump(recs) == [i \in 1..Len(recs) |-> DumpRow(recs[i])]
json_load(text) == [i \in 1..Len(text) |-> LoadRow(text[i])]

NoFile == [exists |-> FALSE, valid |-> FALSE, text |-> << >>]
JsonFile(text) == [exists |-> TRUE, valid |-> TRUE, text |-> text]
\* open(path, "w") succeeded and json.dump stopped part-way.
TornFile == [exists |-> TRUE, valid |-> FALSE, text |-> << >>]

\* --------------------------------------------------------------- state
VARIABLES
    run,                 \* which execution of the script this is
    table,               \* the remote table (static over the runs)
    faults,              \* library calls that have failed so far
    pc,                  \* the statement the script is at
    w,                   \* index into date_ranges of (start_date, end_date)
    a,                   \* index into geojson_files of location_name
    cache,               \* per window: the cache file in the output folder
    offset,
    all_records,
    df,
    gdf_within_geojson,
    daily_stats,         \* [bound, rows]: a Python name is unbound until assigned
    overall_stats,
    all_stats_sections,
    saved,               \* what the writer got: CSV files and data sheets
    summary_sheet,       \* the PM25_Stats sheet
    reqs,                \* history: the requests sent in this run, in order
    last,                \* history: the step just taken and how it ended
    begun,               \* history: the (window, area) pairs whose area iteration started
    lookup,              \* history: per window, what os.path.isfile saw in this run
    found,               \* history: the (window, area) pairs with a record inside the area
    errlog               \* history: the exceptions raised in this run

vars == << run, table, faults, pc, w, a, cache, offset, all_records, df,
           gdf_within_geojson, daily_stats, overall_stats, all_stats_sections,
           saved, summary_sheet, reqs, last, begun, lookup, found, errlog >>

Unbound == [bound |-> FALSE, rows |-> << >>]
Bound(rows) == [bound |-> TRUE, rows |-> rows]

Step(op, outcome) == [op |-> op, outcome |-> outcome]
Raised(op, outcome) == [window |-> w, area |-> a, op |-> op, outcome |-> outcome]

Init ==
    /\ run = 1 /\ table \in Tables /\ faults = 0
    /\ pc = "window" /\ w = 1 /\ a = 1
    /\ cache = [x \in Windows |-> NoFile]
    /\ offset = 0 /\ all_records = << >> /\ df = << >> /\ gdf_within_geojson = << >>
    /\ daily_stats = Unbound /\ overall_stats = Unbound
    /\ all_stats_sections = << >> /\ saved = << >> /\ summary_sheet = Unbound
    /\ reqs = << >> /\ last = Step("start", "ok") /\ begun = {}
    /\ lookup = [x \in Windows |-> "none"] /\ found = {} /\ errlog = << >>

CanFail == faults < MaxFaults

\* for start_date, end_date in date_ranges: the next iteration, or the summary.
NextWindow ==
    IF w < NumWindows THEN pc' = "window" /\ w' = w + 1
    ELSE pc' = "summary" /\ w' = w

\* The handler of line 263 sits outside the window loop: the loop ends.
WindowExceptEndsLoop == pc' = "summary" /\ w' = w

\* except Exception as e (lines 263-267): log, go on with the next window.
WindowExcept == NextWindow

\* `continue` in the area loop leaves the window.
NextAreaEndsWindow == NextWindow /\ a' = a

\* for location_name, geojson_path in geojson_files.items(): `continue` or the
\* end of the body.
NextArea ==
    IF a < NumAreas THEN pc' = "area" /\ a' = a + 1 /\ w' = w
    ELSE NextWindow /\ a' = a

\* The cache file is never looked at.
CacheHitNever == FALSE

\* A file holding the empty list does not count as an entry.
CacheHitNonEmpty == cache[w].exists /\ cache[w].text # << >>

\* if os.path.isfile(cache_file_path)
CacheHit == cache[w].exists

\* Lines 72-85: the cache file is read when it is there, else pagination starts.
CacheLookup ==
    /\ pc = "window"
    /\ lookup' = [lookup EXCEPT ![w] = IF cache[w].exists THEN "present" ELSE "absent"]
    /\ IF CacheHit
       THEN IF cache[w].valid
            THEN /\ all_records' = json_load(cache[w].text)
                 /\ pc' = "normalize" /\ w' = w
                 /\ last' = Step("CacheLookup", "hit")
                 /\ UNCHANGED << offset, errlog >>
            ELSE \* json.load raises
                 /\ WindowExcept
                 /\ last' = Step("CacheLookup", "load_error")
                 /\ errlog' = Append(errlog, Raised("CacheLookup", "load_error"))
                 /\ UNCHANGED << all_records, offset >>
       ELSE /\ offset' = 0 /\ all_records' = << >>
            /\ pc' = "fetch" /\ w' = w
            /\ last' = Step("CacheLookup", "miss")
            /\ UNCHANGED errlog
    /\ UNCHANGED << found, run, table, faults, a, cache, df, gdf_within_geojson, daily_stats,
                    overall_stats, all_stats_sections, saved, summary_sheet, reqs, begun >>

\* One request of the run: LIMIT, OFFSET, how it ended and the rows it brought.
Sent(outcome, count) ==
    [window |-> w, offset |-> offset, limit |-> limit, outcome |-> outcome, count |-> count]

\* The failed request is sent again.
RequestFailsRetries ==
    /\ pc = "fetch" /\ CanFail
    /\ \E err \in {"http_error", "transport_error"} :
         /\ reqs' = Append(reqs, Sent(err, 0))
         /\ last' = Step("Request", err)
         /\ errlog' = Append(errlog, Raised("Request", err))
    /\ faults' = faults + 1
    /\ pc' = "fetch"
    /\ UNCHANGED << found, run, table, w, a, cache, offset, all_records, df, gdf_within_geojson,
                    daily_stats, overall_stats, all_stats_sections, saved, summary_sheet,
                    begun, lookup >>

\* Lines 101-113, a turn of `while True` in which requests.get or
\* raise_for_status raises: HTTPError and every other Exception break the loop.
RequestFails ==
    /\ pc = "fetch" /\ CanFail
    /\ \E err \in {"http_error", "transport_error"} :
         /\ reqs' = Append(reqs, Sent(err, 0))
         /\ last' = Step("Request", err)
         /\ errlog' = Append(errlog, Raised("Request", err))
    /\ faults' = faults + 1
    /\ pc' = "cache_write"
    /\ UNCHANGED << found, run, table, w, a, cache, offset, all_records, df, gdf_within_geojson,
                    daily_stats, overall_stats, all_stats_sections, saved, summary_sheet,
                    begun, lookup >>

\* The undecodable body ends pagination like a failed request does.
RequestUndecodableBreaks ==
    /\ pc = "fetch" /\ CanFail
    /\ reqs' = Append(reqs, Sent("bad_body", 0))
    /\ last' = Step("Request", "bad_body")
    /\ errlog' = Append(errlog, Raised("Request", "bad_body"))
    /\ faults' = faults + 1
    /\ pc' = "cache_write"
    /\ UNCHANGED << found, run, table, w, a, cache, offset, all_records, df, gdf_within_geojson,
                    daily_stats, overall_stats, all_stats_sections, saved, summary_sheet,
                    begun, lookup >>

\* Line 119, response.json() raises: nothing in the loop catches it.
RequestUndecodable ==
    /\ pc = "fetch" /\ CanFail
    /\ reqs' = Append(reqs, Sent("bad_body", 0))
    /\ last' = Step("Request", "bad_body")
    /\ errlog' = Append(errlog, Raised("Request", "bad_body"))
    /\ faults' = faults + 1
    /\ WindowExcept
    /\ UNCHANGED << found, run, table, a, cache, offset, all_records, df, gdf_within_geojson,
                    daily_stats, overall_stats, all_stats_sections, saved, summary_sheet,
                    begun, lookup >>

\* The page replaces what was collected.
ExtendedOverwrites(all, records) == records

\* all_records.extend(records)
Extended(all, records) == all \o records

\* The cursor moves one row too far.
NextOffsetSkips(off) == off + limit + 1

\* offset += limit
NextOffset(off) == off + limit

\* The empty page does not end the loop.
RequestOkNeverStops ==
    /\ pc = "fetch"
    /\ LET records == Page(table, w, offset)
       IN  /\ reqs' = Append(reqs, Sent(IF records = << >> THEN "empty" ELSE "page", Len(records)))
           /\ all_records' = Extended(all_records, records)
           /\ offset' = NextOffset(offset)
           /\ pc' = "fetch"
           /\ last' = Step("Request", IF records = << >> THEN "empty" ELSE "page")
    /\ UNCHANGED << found, run, table, faults, w, a, cache, df, gdf_within_geojson, daily_stats,
                    overall_stats, all_stats_sections, saved, summary_sheet, begun, lookup,
                    errlog >>

\* Lines 115-124, a turn in which the page arrives: an empty page breaks, any
\* other is appended and the offset moves on.
RequestOk ==
    /\ pc = "fetch"
    /\ LET records == Page(table, w, offset)
       IN  /\ reqs' = Append(reqs, Sent(IF records = << >> THEN "empty" ELSE "page", Len(records)))
           /\ IF records = << >>
              THEN /\ pc' = "cache_write"
                   /\ last' = Step("Request", "empty")
                   /\ UNCHANGED << all_records, offset >>
              ELSE /\ all_records' = Extended(all_records, records)
                   /\ offset' = NextOffset(offset)
                   /\ pc' = "fetch"
                   /\ last' = Step("Request", "page")
    /\ UNCHANGED << found, run, table, faults, w, a, cache, df, gdf_within_geojson, daily_stats,
                    overall_stats, all_stats_sections, saved, summary_sheet, begun, lookup,
                    errlog >>

\* The file is written after the range filter and the scaling.
FileTextNormalized(recs) == json_dump(Normalized(recs))

\* json.dump(all_records, f)
FileText(recs) == json_dump(recs)

\* Lines 127-128: with open(cache_file_path, "w") as f: json.dump(all_records, f)
CacheWrite ==
    /\ pc = "cache_write"
    /\ \/ /\ cache' = [cache EXCEPT ![w] = JsonFile(FileText(all_records))]
          /\ pc' = "normalize" /\ w' = w
          /\ last' = Step("CacheWrite", "ok")
          /\ UNCHANGED << faults, errlog >>
       \/ /\ CanFail
          /\ \E err \in {"open_error", "dump_error"} :
               /\ cache' = [cache EXCEPT ![w] = IF err = "open_error" THEN @ ELSE TornFile]
               /\ last' = Step("CacheWrite", err)
               /\ errlog' = Append(errlog, Raised("CacheWrite", err))
          /\ faults' = faults + 1
          /\ WindowExcept
    /\ UNCHANGED << found, run, table, a, offset, all_records, df, gdf_within_geojson, daily_stats,
                    overall_stats, all_stats_sections, saved, summary_sheet, reqs, begun,
                    lookup >>

\* Lines 132-147: the frame, the range filter, the version scaling, the empty
\* check and the geometry column.  A raise here leaves the window.
Normalize ==
    /\ pc = "normalize"
    /\ \/ /\ df' = Normalized(all_records)
          /\ IF df' = << >>
             THEN /\ NextWindow /\ a' = a
                  /\ last' = Step("Normalize", "no_data")
             ELSE /\ pc' = "area" /\ a' = 1 /\ w' = w
                  /\ last' = Step("Normalize", "ok")
          /\ UNCHANGED << faults, errlog >>
       \/ /\ CanFail
          /\ faults' = faults + 1
          /\ last' = Step("Normalize", "error")
          /\ errlog' = Append(errlog, Raised("Normalize", "error"))
          /\ WindowExcept
          /\ UNCHANGED << a, df >>
    /\ UNCHANGED << found, run, table, cache, offset, all_records, gdf_within_geojson, daily_stats,
                    overall_stats, all_stats_sections, saved, summary_sheet, reqs, begun,
                    lookup >>

\* Lines 151-156: gpd.read_file raises; the area is skipped.
AreaReadFails ==
    /\ pc = "area" /\ CanFail
    /\ begun' = begun \cup {<< w, a >>}
    /\ faults' = faults + 1
    /\ last' = Step("Area", "read_error")
    /\ errlog' = Append(errlog, Raised("Area", "read_error"))
    /\ NextArea
    /\ UNCHANGED << found, run, table, cache, offset, all_records, df, gdf_within_geojson, daily_stats,
                    overall_stats, all_stats_sections, saved, summary_sheet, reqs, lookup >>

\* Lines 158-163: shape(), within() or to_datetime() raises; no handler of the
\* area loop encloses them, so the handler of the window loop takes the error.
AreaFilterFails ==
    /\ pc = "area" /\ CanFail
    /\ begun' = begun \cup {<< w, a >>}
    /\ faults' = faults + 1
    /\ \E err \in {"shape_error", "within_error", "datetime_error"} :
         /\ last' = Step("Area", err)
         /\ errlog' = Append(errlog, Raised("Area", err))
         /\ gdf_within_geojson' = IF err = "datetime_error" THEN Within(df, a)
                                  ELSE gdf_within_geojson
    /\ WindowExcept
    /\ UNCHANGED << found, run, table, a, cache, offset, all_records, df, daily_stats,
                    overall_stats, all_stats_sections, saved, summary_sheet, reqs, lookup >>

\* Lines 152-169: the records inside the polygon; none means the next area.
AreaFilter ==
    /\ pc = "area"
    /\ begun' = begun \cup {<< w, a >>}
    /\ gdf_within_geojson' = Within(df, a)
    /\ found' = IF gdf_within_geojson' = << >> THEN found ELSE found \cup {<< w, a >>}
    /\ IF gdf_within_geojson' = << >>
       THEN /\ NextArea
            /\ last' = Step("Area", "no_data")
       ELSE /\ pc' = "daily" /\ UNCHANGED << w, a >>
            /\ last' = Step("Area", "ok")
    /\ UNCHANGED << run, table, faults, cache, offset, all_records, df, daily_stats,
                    overall_stats, all_stats_sections, saved, summary_sheet, reqs, lookup,
                    errlog >>

\* Lines 172-203.  The handler prints and falls through: a raise in the
\* resampling leaves daily_stats as it was, a raise in the reindexing leaves
\* it as line 174 assigned it.
Daily ==
    /\ pc = "daily"
    /\ \/ /\ daily_stats' = Bound(DailyStats(gdf_within_geojson, w))
          /\ last' = Step("Daily", "ok")
          /\ UNCHANGED << faults, errlog >>
       \/ /\ CanFail
          /\ faults' = faults + 1
          /\ \E err \in {"resample_error", "reindex_error"} :
               /\ daily_stats' = IF err = "resample_error" THEN daily_stats
                                 ELSE Bound(Resampled(gdf_within_geojson))
               /\ last' = Step("Daily", err)
               /\ errlog' = Append(errlog, Raised("Daily", err))
    /\ pc' = "overall"
    /\ UNCHANGED << found, run, table, w, a, cache, offset, all_records, df, gdf_within_geojson,
                    overall_stats, all_stats_sections, saved, summary_sheet, reqs, begun,
                    lookup >>

\* Lines 206-223.  The handler prints and falls through.
OverallStep ==
    /\ pc = "overall"
    /\ \/ /\ overall_stats' = Bound(OverallStats(gdf_within_geojson))
          /\ last' = Step("Overall", "ok")
          /\ UNCHANGED << faults, errlog >>
       \/ /\ CanFail
          /\ faults' = faults + 1
          /\ last' = Step("Overall", "error")
          /\ errlog' = Append(errlog, Raised("Overall", "error"))
          /\ UNCHANGED overall_stats
    /\ pc' = "append"
    /\ UNCHANGED << found, run, table, w, a, cache, offset, all_records, df, gdf_within_geojson,
                    daily_stats, all_stats_sections, saved, summary_sheet, reqs, begun,
                    lookup >>

\* Lines 226-233: pd.concat([daily_stats, overall_stats]) and the append to
\* all_stats_sections; an unbound name raises NameError.
AppendStats ==
    /\ pc = "append"
    /\ IF daily_stats.bound /\ overall_stats.bound
       THEN /\ all_stats_sections' =
                 Append(all_stats_sections,
                        [label |-> Label(a, w), stats_df |-> daily_stats.rows \o overall_stats.rows])
            /\ pc' = "save" /\ w' = w
            /\ last' = Step("AppendStats", "ok")
            /\ UNCHANGED errlog
       ELSE /\ WindowExcept
            /\ last' = Step("AppendStats", "name_error")
            /\ errlog' = Append(errlog, Raised("AppendStats", "name_error"))
            /\ UNCHANGED all_stats_sections
    /\ UNCHANGED << found, run, table, faults, a, cache, offset, all_records, df, gdf_within_geojson,
                    daily_stats, overall_stats, saved, summary_sheet, reqs, begun, lookup >>

Csv(k, x, recs) == [kind |-> "csv", label |-> Label(k, x), rows |-> ToSave(recs)]
Sheet(k, x, recs) == [kind |-> "sheet", label |-> Label(k, x), rows |-> ToSave(recs)]

\* Lines 236-261: the CSV file, then the data sheet; the handler prints.
Save ==
    /\ pc = "save"
    /\ \/ /\ saved' = saved \o << Csv(a, w, gdf_within_geojson), Sheet(a, w, gdf_within_geojson) >>
          /\ last' = Step("Save", "ok")
          /\ UNCHANGED << faults, errlog >>
       \/ /\ CanFail
          /\ faults' = faults + 1
          /\ \E err \in {"csv_error", "excel_error"} :
               /\ saved' = IF err = "csv_error" THEN saved
                           ELSE Append(saved, Csv(a, w, gdf_within_geojson))
               /\ last' = Step("Save", err)
               /\ errlog' = Append(errlog, Raised("Save", err))
    /\ NextArea
    /\ UNCHANGED << found, run, table, cache, offset, all_records, df, gdf_within_geojson, daily_stats,
                    overall_stats, all_stats_sections, summary_sheet, reqs, begun, lookup >>

\* Lines 270-298: the PM25_Stats sheet, one section per entry of all_stats_sections.
Summary ==
    /\ pc = "summary"
    /\ \/ /\ summary_sheet' = Bound(all_stats_sections)
          /\ last' = Step("Summary", "ok")
          /\ UNCHANGED << faults, errlog >>
       \/ /\ CanFail
          /\ faults' = faults + 1
          /\ last' = Step("Summary", "error")
          /\ errlog' = Append(errlog, Raised("Summary", "error"))
          /\ UNCHANGED summary_sheet
    /\ pc' = "done"
    /\ UNCHANGED << found, run, table, w, a, cache, offset, all_records, df, gdf_within_geojson,
                    daily_stats, overall_stats, all_stats_sections, saved, reqs, begun, lookup >>

\* The script is started again; the cache files of the output folder remain.
NextRun ==
    /\ pc = "done" /\ run < MaxRuns
    /\ run' = run + 1
    /\ pc' = "window" /\ w' = 1 /\ a' = 1
    /\ offset' = 0 /\ all_records' = << >> /\ df' = << >> /\ gdf_within_geojson' = << >>
    /\ daily_stats' = Unbound /\ overall_stats' = Unbound
    /\ all_stats_sections' = << >> /\ saved' = << >> /\ summary_sheet' = Unbound
    /\ reqs' = << >> /\ last' = Step("start", "ok") /\ begun' = {}
    /\ lookup' = [x \in Windows |-> "none"] /\ found' = {} /\ errlog' = << >>
    /\ UNCHANGED << table, faults, cache >>

Next ==
    \/ CacheLookup
    \/ RequestFails
    \/ RequestUndecodable
    \/ RequestOk
    \/ CacheWrite
    \/ Normalize
    \/ AreaReadFails
    \/ AreaFilterFails
    \/ AreaFilter
    \/ Daily
    \/ OverallStep
    \/ AppendStats
    \/ Save
    \/ Summary
    \/ NextRun

Spec == Init /\ [][Next]_vars

\* The steps of one execution of the script.
Script ==
    \/ CacheLookup
    \/ RequestFails
    \/ RequestUndecodable
    \/ RequestOk
    \/ CacheWrite
    \/ Normalize
    \/ AreaReadFails
    \/ AreaFilterFails
    \/ AreaFilter
    \/ Daily
    \/ OverallStep
    \/ AppendStats
    \/ Save
    \/ Summary

\* The interpreter runs the script statement after statement, and every call
\* into a library (a request included) returns or raises: a run that can
\* take a step takes one.
FairSpec == Spec /\ WF_vars(Script)

\* -------------------------------------------------------------- claims
WindowReqs(x) == SelectSeq(reqs, LAMBDA r : r.window = x)
Counts(rq) == [i \in 1..Len(rq) |-> rq[i].count]
Delivered(rq) == \A i \in 1..Len(rq) : rq[i].outcome \in {"page", "empty"}
RequestErrors == {"http_error", "transport_error"}
HasLabel(k, x) == \E i \in 1..Len(all_stats_sections) : all_stats_sections[i].label = Label(k, x)

\* C1: on a cache miss with every request answered, the requests of the window
\* carry LIMIT 10000 and the offsets 0, 10000, 20000, ..., only the last one
\* returns the empty page, and all_records is then the window's result set
\* in order, each of its records once.
C1_SequentialPagination ==
    (/\ pc = "cache_write" /\ lookup[w] = "absent"
     /\ last = Step("Request", "empty")
     /\ Delivered(WindowReqs(w)))
    => LET rq == WindowReqs(w)
       IN  /\ \A i \in 1..Len(rq) :
                /\ rq[i].limit = 10000
                /\ rq[i].offset = (i - 1) * 10000
                /\ (rq[i].outcome = "empty") <=> (i = Len(rq))
           /\ all_records = ResultSet(table, w)
           /\ Cardinality({all_records[i].entity_id : i \in 1..Len(all_records)})
                = Len(ResultSet(table, w))

C1_Witness ==
    /\ pc = "cache_write" /\ lookup[w] = "absent" /\ last = Step("Request", "empty")
    /\ table = "bulk" /\ w = 1
    /\ Len(WindowReqs(1)) = 4
    /\ Len(all_records) = 23000

\* The window's pagination ended after pages of 10000, 10000, 3000 and 0 records.
C2_Pages ==
    /\ pc = "cache_write" /\ lookup[w] = "absent"
    /\ Delivered(WindowReqs(w))
    /\ Counts(WindowReqs(w)) = << 10000, 10000, 3000, 0 >>

\* C2 as stated: two pages of 10000, one of 3000 and an empty one yield
\* exactly 20003 raw records.
C2_Original == C2_Pages => Len(all_records) = 20003

\* C2 as amended: two pages of 10000, one of 3000 and an empty one yield
\* exactly 23000 raw records.
C2_Amended == C2_Pages => Len(all_records) = 23000

C2_Witness == C2_Pages /\ table = "bulk" /\ w = 1

\* C3: a request that fails with an HTTP or transport error is the last request
\* of its window; the raw records are then exactly the pages before it; and
\* the later windows are still taken up.
C3_ErrorEndsPagination ==
    /\ \A i, j \in 1..Len(reqs) :
         (i < j /\ reqs[i].window = reqs[j].window) => reqs[i].outcome = "page"
    /\ (pc = "cache_write" /\ last.op = "Request" /\ last.outcome \in RequestErrors)
       => LET k == Len(WindowReqs(w))
              rs == ResultSet(table, w)
          IN  all_records = SubSeq(rs, 1, Min((k - 1) * 10000, Len(rs)))
    /\ \A i \in 1..Len(errlog) :
         (errlog[i].op = "Request" /\ errlog[i].outcome \in RequestErrors)
         => (pc \in {"summary", "done"} => \A x \in Windows : lookup[x] # "none")

C3_Witness ==
    /\ table = "bulk" /\ pc = "window" /\ w = 2
    /\ Len(WindowReqs(1)) = 2
    /\ WindowReqs(1)[1].outcome = "page"
    /\ WindowReqs(1)[2].outcome \in RequestErrors
    /\ Len(all_records) = 10000
    /\ all_records = Page(table, 1, 0)

\* C4: a window whose cache file exists when the window is taken up gets no
\* request in that run, and its raw records are the decoded file.
C4_CacheHitNoRequests ==
    \A x \in Windows :
        lookup[x] = "present"
        => /\ WindowReqs(x) = << >>
           /\ (pc = "normalize" /\ w = x)
              => (cache[x].valid /\ all_records = json_load(cache[x].text))

C4_Witness ==
    /\ table = "sparse"
    /\ run = 2 /\ pc = "normalize" /\ lookup[w] = "present"
    /\ reqs = << >>
    /\ all_records # << >>
    /\ all_records = ResultSet(table, w)

\* C5: when normalization is reached, the window's cache file exists and
\* decodes to the raw list handed to normalization; on a miss that list is
\* the pages as fetched, unfiltered and unscaled, also when there are none.
C5_CacheHoldsRawList ==
    /\ pc = "normalize"
       => /\ cache[w].exists /\ cache[w].valid
          /\ json_load(cache[w].text) = all_records
    /\ (pc = "normalize" /\ lookup[w] = "absent")
       => all_records = SubSeq(ResultSet(table, w), 1, Sum(Counts(WindowReqs(w))))

C5_Witness ==
    /\ pc = "normalize" /\ lookup[w] = "absent" /\ table = "grid"
    /\ all_records # << >>
    /\ Normalized(all_records) # all_records
    /\ cache[w].exists

\* C6: once normalized, every record of the window has 0 < pm2_5 <= 10000, in
\* the frame, inside every area and in what is handed to the writer.
C6_NormalizedRange ==
    pc \in {"area", "daily", "overall", "append", "save"}
    => /\ \A i \in 1..Len(df) : 0 < df[i].pm2_5 /\ df[i].pm2_5 <= 10000
       /\ pc # "area" =>
            \A i \in 1..Len(gdf_within_geojson) :
                0 < gdf_within_geojson[i].pm2_5 /\ gdf_within_geojson[i].pm2_5 <= 10000

\* C7: every entry of the summary list holds one row per calendar day of its
\* window, in order, and then the one Overall row.
C7_TableShape ==
    \A i \in 1..Len(all_stats_sections) :
        LET e == all_stats_sections[i]
            n == e.label.end_date - e.label.start_date + 1
        IN  /\ Len(e.stats_df) = n + 1
            /\ \A j \in 1..n : e.stats_df[j].Date = OnDay(e.label.start_date + j - 1)
            /\ e.stats_df[n + 1].Date = Overall

\* C8: a (window, area) pair whose daily or overall statistics raised has no
\* entry in the summary list.
C8_NoEntryAfterFailure ==
    \A j \in 1..Len(errlog) :
        errlog[j].op \in {"Daily", "Overall"} => ~HasLabel(errlog[j].area, errlog[j].window)

\* C9: when a window whose area loop was entered is left, every area of the
\* configuration has had its iteration.
C9_AreasIsolated ==
    \A x \in Windows :
        ((x < w \/ pc \in {"summary", "done"}) /\ \E k \in Areas : << x, k >> \in begun)
        => \A k \in Areas : << x, k >> \in begun

\* C10: the summary step is reached only after every window was taken up,
\* whatever was raised on the way; the sheet it writes holds the collected
\* sections, among them one for every pair with data of a window that raised
\* nothing.
C10_RunContinues ==
    /\ pc \in {"summary", "done"} => \A x \in Windows : lookup[x] # "none"
    /\ (pc = "done" /\ last = Step("Summary", "ok"))
       => /\ summary_sheet = Bound(all_stats_sections)
          /\ \A x \in Windows : \A k \in Areas :
               (<< x, k >> \in found /\ \A i \in 1..Len(errlog) : errlog[i].window # x)
               => HasLabel(k, x)

C10_Witness ==
    /\ pc = "done" /\ last = Step("Summary", "ok")
    /\ \E i \in 1..Len(errlog) : errlog[i].window = 1 /\ errlog[i].op \in {"Request", "Normalize", "Area"}
    /\ ~HasLabel(1, 1)
    /\ HasLabel(1, 2)

\* The cells of the row of day d (or of the Overall row) in a table.
IsCell(rows, date, avg, med) ==
    \E j \in 1..Len(rows) :
        rows[j].Date = date /\ rows[j].PM25_Average = avg /\ rows[j].PM25_Median = med
NumericCells(rows, date) ==
    \E j \in 1..Len(rows) :
        rows[j].Date = date /\ rows[j].PM25_Average.kind = "num" /\ rows[j].PM25_Median.kind = "num"
LastEntry == all_stats_sections[Len(all_stats_sections)]

\* C11: in the table just appended for a pair, a day of the window with no
\* record inside the area shows the missing marker in both columns, a day with
\* a record shows numbers in both, and the Overall row is the mean and the
\* median over the records alone (sum over count, not over days).
C11_MissingDays ==
    (pc = "save" /\ last = Step("AppendStats", "ok"))
    => LET rows == LastEntry.stats_df
           recs == gdf_within_geojson
       IN  /\ LastEntry.label = Label(a, w)
           /\ \A d \in date_ranges[w].start_date..date_ranges[w].end_date :
                IF OfDay(recs, d) = << >>
                THEN IsCell(rows, OnDay(d), Missing, Missing)
                ELSE NumericCells(rows, OnDay(d))
           /\ IsCell(rows, Overall,
                     Round2(Num(Frac(Sum(Pm(recs)), Len(recs) * 100))),
                     Round2(Num(Frac(Median(Pm(recs)).num, Median(Pm(recs)).den * 100))))

\* The (day, pm2_5) pairs of the records inside the area.
DayValues(recs) == {<< recs[i].recording_timestamp.day, recs[i].pm2_5 >> : i \in 1..Len(recs)}
TenExactly == Num(Frac(1000, 100))
NothingRaisedForPair ==
    \A i \in 1..Len(errlog) : ~(errlog[i].window = w /\ errlog[i].area = a)

\* The pair just appended has a window of three days and an area holding all
\* the normalized records: 500 and 1500 on the first day, 1000 on the third.
C12_Given ==
    /\ pc = "save" /\ last = Step("AppendStats", "ok") /\ NothingRaisedForPair
    /\ date_ranges[w].end_date = date_ranges[w].start_date + 2
    /\ gdf_within_geojson = df /\ Len(df) = 3
    /\ DayValues(df) = LET s == date_ranges[w].start_date
                       IN  {<< s, 500 >>, << s, 1500 >>, << s + 2, 1000 >>}

\* C12: for that pair the table is: first day 10.00 and 10.00, second day
\* missing and missing, third day 10.00 and 10.00, Overall 10.00 and 10.00.
C12_Scenario ==
    C12_Given
    => LET s == date_ranges[w].start_date
       IN  LastEntry.stats_df =
             << StatRow(OnDay(s), TenExactly, TenExactly),
                StatRow(OnDay(s + 1), Missing, Missing),
                StatRow(OnDay(s + 2), TenExactly, TenExactly),
                StatRow(Overall, TenExactly, TenExactly) >>

C12_Witness == C12_Given /\ table = "scenario" /\ w = 2 /\ a = NumAreas

\* The requests of window x all answered and pagination over: the raw list is
\* about to be written to the cache file.
FetchedWhole(x) ==
    /\ pc = "cache_write" /\ w = x /\ lookup[x] = "absent"
    /\ last = Step("Request", "empty") /\ Delivered(WindowReqs(x))
OnWindowDay(r, x) ==
    /\ date_ranges[x].start_date <= r.recording_timestamp.day
    /\ r.recording_timestamp.day <= date_ranges[x].end_date

\* C13: once a window is fetched whole, every row of the remote table recorded
\* on a calendar day from start_date through end_date, at any time of day,
\* has satisfied the query's time predicate and is among the window's records.
C13_InclusiveWindow ==
    \A x \in Windows :
        FetchedWhole(x)
        => LET rows == TableRows(table, x)
               fetched == {all_records[j].entity_id : j \in 1..Len(all_records)}
           IN  \A i \in 1..Len(rows) :
                 OnWindowDay(rows[i], x) => (InTimeRange(rows[i], x) /\ rows[i].entity_id \in fetched)

\* Record r is row `raw` of the remote table after exactly one scaling.
ScaledOnce(r, raw) ==
    /\ r.entity_id = raw.entity_id
    /\ r.version_major = raw.version_major
    /\ r.pm2_5 = IF raw.version_major = "1" THEN raw.pm2_5 * 100 ELSE raw.pm2_5
AllScaledOnce(recs, rows) ==
    \A i \in 1..Len(recs) : \E j \in 1..Len(rows) : ScaledOnce(recs[i], rows[j])

\* C14: in every run, each record that survived the range filter carries the
\* raw pm2_5 of its row times 100 when version_major is "1" and the raw value
\* itself otherwise, in the frame and inside every area; the rows it was
\* scaled from are the raw list's rows that pass the range filter.
C14_ScaledOnceAfterFilter ==
    pc \in {"area", "daily", "overall", "append", "save"}
    => LET rows == RangeFilter(TableRows(table, w))
       IN  /\ Len(df) = Len(RangeFilter(all_records))
           /\ AllScaledOnce(df, rows)
           /\ pc # "area" => AllScaledOnce(gdf_within_geojson, rows)

C14_Witness ==
    /\ run = 2 /\ lookup[w] = "present" /\ pc = "daily" /\ table = "grid"
    /\ \E i \in 1..Len(gdf_within_geojson) :
         gdf_within_geojson[i].version_major = "1" /\ gdf_within_geojson[i].pm2_5 = 10000
    /\ \E i \in 1..Len(gdf_within_geojson) :
         gdf_within_geojson[i].version_major = "2" /\ gdf_within_geojson[i].pm2_5 = 100

\* The point of r is in the interior of area k's rectangle.
StrictlyInside(r, k) ==
    /\ geojson_files[k].lon0 < r.longitude /\ r.longitude < geojson_files[k].lon1
    /\ geojson_files[k].lat0 < r.latitude /\ r.latitude < geojson_files[k].lat1
OnBoundary(r, k) ==
    /\ ~StrictlyInside(r, k)
    /\ geojson_files[k].lon0 <= r.longitude /\ r.longitude <= geojson_files[k].lon1
    /\ geojson_files[k].lat0 <= r.latitude /\ r.latitude <= geojson_files[k].lat1
Ids(recs) == {recs[i].entity_id : i \in 1..Len(recs)}

\* C15: the records that an area's statistics are computed from are exactly
\* the normalized records strictly inside the area's polygon, none on its
\* boundary or outside it and none of the inside ones dropped; every extract
\* handed to the writer holds only records strictly inside its area.
C15_StrictlyInside ==
    /\ pc \in {"daily", "overall", "append", "save"}
       => /\ \A i \in 1..Len(gdf_within_geojson) : StrictlyInside(gdf_within_geojson[i], a)
          /\ Ids(gdf_within_geojson) = {df[i].entity_id : i \in {j \in 1..Len(df) : StrictlyInside(df[j], a)}}
          /\ Len(gdf_within_geojson) = Cardinality(Ids(gdf_within_geojson))
    /\ \A n \in 1..Len(saved) :
         \A i \in 1..Len(saved[n].rows) : StrictlyInside(saved[n].rows[i], saved[n].label.location_name)

C15_Witness ==
    /\ table = "grid" /\ last = Step("Save", "ok")
    /\ Len(saved) = 2 /\ saved[1].label = Label(1, 1) /\ saved[1].rows # << >>
    /\ \E i \in 1..Len(df) : OnBoundary(df[i], 1) /\ df[i].entity_id \notin Ids(saved[1].rows)
    /\ \E i \in 1..Len(df) :
         /\ ~StrictlyInside(df[i], 1) /\ ~OnBoundary(df[i], 1)
         /\ df[i].entity_id \notin Ids(saved[1].rows)

HasExtract(k, x) == \E n \in 1..Len(saved) : saved[n].label = Label(k, x)
AfterNormalize == {"Normalize", "Area", "Daily", "Overall", "AppendStats", "Save"}
AfterArea == {"Area", "Daily", "Overall", "AppendStats", "Save"}

\* C16: a window whose normalized set is empty has no area iteration, no
\* table, no extract and no exception, and the next window (or the summary
\* after the last one) follows; a pair with no record inside the area has no
\* table, no extract and no exception, and the next area (or the next window
\* after the last area) follows.
C16_EmptyUnits ==
    /\ last = Step("Normalize", "no_data")
       => /\ pc \in {"window", "summary"} /\ df = << >>
          /\ pc = "window" => w >= 2
          /\ pc = "summary" => w = NumWindows
          /\ LET x == IF pc = "summary" THEN w ELSE w - 1
             IN  /\ \A k \in Areas : << x, k >> \notin begun /\ ~HasLabel(k, x) /\ ~HasExtract(k, x)
                 /\ \A i \in 1..Len(errlog) :
                      ~(errlog[i].window = x /\ errlog[i].op \in AfterNormalize)
    /\ last = Step("Area", "no_data")
       => /\ pc \in {"area", "window", "summary"} /\ gdf_within_geojson = << >>
          /\ pc = "area" => a >= 2
          /\ pc = "window" => (a = NumAreas /\ w >= 2)
          /\ pc = "summary" => (a = NumAreas /\ w = NumWindows)
          /\ LET x == IF pc = "window" THEN w - 1 ELSE w
                 k == IF pc = "area" THEN a - 1 ELSE a
             IN  /\ << x, k >> \in begun
                 /\ ~HasLabel(k, x) /\ ~HasExtract(k, x)
                 /\ \A i \in 1..Len(errlog) :
                      ~(errlog[i].window = x /\ errlog[i].area = k /\ errlog[i].op \in AfterArea)
    /\ pc \in {"area", "daily", "overall", "append", "save"}
       => \A k \in Areas :
            (\A i \in 1..Len(df) : ~StrictlyInside(df[i], k)) => (~HasLabel(k, w) /\ ~HasExtract(k, w))

\* Window 1 had no normalized record and area 1 of window 2 none inside it;
\* window 2 and its last area were processed all the same.
C16_Witness ==
    /\ table = "scenario" /\ run = 1 /\ pc = "done" /\ errlog = << >>
    /\ lookup[1] = "absent" /\ cache[1].exists
    /\ begun = {<< 2, k >> : k \in Areas} /\ found = {<< 2, NumAreas >>}
    /\ Len(all_stats_sections) = 1 /\ HasLabel(NumAreas, 2)
    /\ Len(saved) = 2 /\ HasExtract(NumAreas, 2)

\* C17: over all the runs, a step taken while window x has a cache file
\* leaves that file as it is and sends no request for x; and a window taken
\* up with a readable file goes on to normalization with the decoded file as
\* its raw records, also when the file holds a list that an error truncated.
C17_CacheEntryIsFinal ==
    [][/\ \A x \in Windows :
            cache[x].exists
            => /\ cache'[x] = cache[x]
               /\ \A i \in 1..Len(reqs') :
                    reqs'[i].window = x => (i <= Len(reqs) /\ reqs[i] = reqs'[i])
       /\ (pc = "window" /\ cache[w].exists /\ cache[w].valid)
          => (pc' = "normalize" /\ w' = w /\ all_records' = json_load(cache[w].text))
      ]_vars

\* A later run takes the empty list that was written after page 1 failed.
C17_Witness ==
    /\ table = "sparse" /\ run = 2 /\ pc = "normalize" /\ last = Step("CacheLookup", "hit")
    /\ cache[w] = JsonFile(<< >>) /\ all_records = << >>
    /\ ResultSet(table, w) # << >>
    /\ reqs = << >>

Undecodable(e) == e.op = "Request" /\ e.outcome = "bad_body"

\* C18: a window in which a page body could not be decoded is left at once:
\* it has no cache file, no area iteration, no table and no extract, the
\* pages collected for it enter no later window's records, and the next
\* window (or the summary after the last one) follows.
C18_UndecodableAbandonsWindow ==
    /\ \A i \in 1..Len(errlog) :
         Undecodable(errlog[i])
         => LET x == errlog[i].window
            IN  /\ ~cache[x].exists
                /\ x < w \/ pc \in {"summary", "done"}
                /\ \A k \in Areas : << x, k >> \notin begun /\ ~HasLabel(k, x) /\ ~HasExtract(k, x)
                /\ pc \in {"fetch", "cache_write", "normalize"}
                   => all_records = SubSeq(ResultSet(table, w), 1, Len(all_records))
                /\ pc \in {"summary", "done"} => \A y \in Windows : lookup[y] # "none"
    /\ last = Step("Request", "bad_body")
       => /\ pc \in {"window", "summary"}
          /\ pc = "summary" => w = NumWindows
          /\ Undecodable(errlog[Len(errlog)])
          /\ errlog[Len(errlog)].window = IF pc = "summary" THEN w ELSE w - 1

\* The second page of window 1 was undecodable: the first page is dropped.
C18_Witness ==
    /\ table = "bulk" /\ pc = "window" /\ w = 2 /\ last = Step("Request", "bad_body")
    /\ Len(WindowReqs(1)) = 2 /\ WindowReqs(1)[1].outcome = "page"
    /\ Len(all_records) = 10000
    /\ ~cache[1].exists

\* Entry e is labelled for the pair (x, k).
LabelledFor(e, x, k) ==
    /\ e.label.location_name = k
    /\ e.label.start_date = date_ranges[x].start_date
    /\ e.label.end_date = date_ranges[x].end_date
\* Entry e comes before entry f: an earlier window, or the same window and an
\* earlier area of the configuration.
Before(e, f) ==
    \/ e.label.start_date < f.label.start_date
    \/ e.label.start_date = f.label.start_date /\ e.label.location_name < f.label.location_name
SectionsInOrder ==
    /\ \A i \in 1..Len(all_stats_sections) :
         \E x \in Windows : \E k \in Areas :
            /\ LabelledFor(all_stats_sections[i], x, k)
            /\ << x, k >> \in found
            /\ x <= w
    /\ \A i, j \in 1..Len(all_stats_sections) :
         i < j => Before(all_stats_sections[i], all_stats_sections[j])
SectionsOnlyGrow ==
    \/ all_stats_sections' = all_stats_sections
    \/ /\ Len(all_stats_sections') = Len(all_stats_sections) + 1
       /\ SubSeq(all_stats_sections', 1, Len(all_stats_sections)) = all_stats_sections
    \/ run' = run + 1

\* C19: during a run and at its end the summary list holds entries labelled
\* with the area and the window bounds of pairs that have a record inside the
\* area, in the order of the windows and then of the areas, hence at most one
\* per pair; and a step of the run leaves the list as it is or appends one
\* entry to it.
C19_SummaryList == []SectionsInOrder /\ [][SectionsOnlyGrow]_vars

C19_Witness ==
    /\ table = "sparse" /\ pc = "done" /\ last = Step("Summary", "ok")
    /\ Len(all_stats_sections) = 3
    /\ LabelledFor(all_stats_sections[1], 1, 1)
    /\ LabelledFor(all_stats_sections[2], 1, NumAreas)
    /\ LabelledFor(all_stats_sections[3], 2, 1)
    /\ summary_sheet = Bound(all_stats_sections)

\* The pages of window x that hold a record.
NonEmptyPages(x) == (Len(ResultSet(table, x)) + limit - 1) \div limit

RequestsBounded ==
    \A x \in Windows :
        LET rq == WindowReqs(x)
        IN  rq # << >>
            => /\ Len(rq) <= NonEmptyPages(x) + 1
               /\ rq[1].offset = 0
               /\ \A i \in 1..(Len(rq) - 1) :
                    /\ rq[i + 1].offset = rq[i].offset + 10000
                    /\ rq[i].outcome = "page"
RunStarted(r) == run = r /\ pc = "window" /\ w = 1
AtSummary(r) == run = r /\ pc = "summary" /\ w = NumWindows

\* C20: a window gets at most one request more than its result set has
\* non-empty pages, at offsets 0, 10000, 20000, ..., none after an empty page
\* or a failed request; and every run that starts reaches the summary step
\* after its last window.
C20_Terminates ==
    /\ []RequestsBounded
    /\ \A r \in 1..MaxRuns : RunStarted(r) ~> AtSummary(r)

\* Two requests for the one page of window 1, a failed first request for
\* window 2, and the run is at the summary step.
C20_Witness ==
    /\ table = "grid" /\ run = 1 /\ pc = "summary" /\ w = NumWindows
    /\ NonEmptyPages(1) = 1 /\ Len(WindowReqs(1)) = 2
    /\ WindowReqs(1)[2].offset = 10000 /\ WindowReqs(1)[2].outcome = "empty"
    /\ Len(WindowReqs(2)) = 1 /\ WindowReqs(2)[1].outcome \in RequestErrors

====
